---- MODULE Spec2Model ----
(***************************************************************************)
(* A model of two pieces of the bedUtils converters:                       *)
(*   - IndexedProbesets (microarraytowig.py): the bisect-based sorted      *)
(*     index of probeset ids and their ProbesetData;                       *)
(*   - TabFile / TabDataLine (TabFile.py): the tab-delimited table, its    *)
(*     load loop, and the data line with its access methods;               *)
(*   - BedMaker (bedMakerUtils.py): the constructor, which loads a TabFile *)
(*     and removes its blank data lines.                                   *)
(* Python strings are modelled as sequences: a probeset id is a sequence   *)
(* of character codes (compared as Python compares str, lexicographically),*)
(* a line of a file is a sequence of one-character strings.                *)
(***************************************************************************)
EXTENDS Integers, Sequences, FiniteSets

VARIABLES
    \* IndexedProbesets
    probeset_ids,          \* self.__probeset_ids
    probeset_data,         \* self.__probeset_data
    supplied,              \* history: probe_id -> payloads passed to addProbesetData, in call order
    n_added,               \* history: number of addProbesetData calls made
    ret,                   \* outcome of the last IndexedProbesets call
    \* TabFile
    header,                \* self.__header
    ncols,                 \* self.__ncols
    data,                  \* self.__data: sequence of TabDataLine
    fp,                    \* the lines of the input file
    column_names,          \* constructor argument column_names: None or Some(list of names)
    arg_skip_first_line,   \* constructor argument skip_first_line
    arg_first_line_is_header, \* constructor argument first_line_is_header
    line_no,               \* __load: line_no
    skip_first_line,       \* __load: local flag skip_first_line
    first_line_is_header,  \* __load: local flag first_line_is_header
    pc,                    \* position of TabFile.__init__: "init", "load", "done", "failed"
    error,                 \* the exception that ended the constructor, or NoException
    \* TabDataLine
    tdl_args,              \* the arguments of TabDataLine(line, column_names, lineno)
    tdl,                   \* the TabDataLine object, None before it is built
    call,                  \* the last call made on a TabDataLine or on the loaded TabFile
    \* BedMaker
    remove_i               \* BedMaker.__init__: the index i of the blank-line loop

index_vars == <<probeset_ids, probeset_data, supplied, n_added, ret>>
table_vars == <<header, ncols, data, fp, column_names, arg_skip_first_line,
                arg_first_line_is_header, line_no, skip_first_line,
                first_line_is_header, pc, error>>
record_vars == <<tdl_args, tdl, call>>
bedmaker_vars == <<remove_i>>
vars == <<index_vars, table_vars, record_vars, bedmaker_vars>>

\* ------------------------------------------------------------------------
\* Bounds and input sets
\* ------------------------------------------------------------------------

\* Largest number of addProbesetData calls explored.
MaxEntries == 3
\* Longest probeset id explored.
MaxKeyLen == 1
\* Largest number of lines in an input file explored.
MaxLines == 3
\* Largest number of items TabDataLine.append may grow a data line to.
MaxFields == 3
\* Largest number of data lines TabFile.insert may grow a table to.
MaxRows == 2

\* Character codes of the probeset ids explored ("a", "b", "c").
KeyChars == {97, 98, 99}
ProbeIds == UNION {[1..n -> KeyChars] : n \in 1..MaxKeyLen}
Chroms == {"chr1"}
Starts == {"100", "200"}
Ends == {"300"}

\* Python's None, as a value, and a value that is not None
None == [none |-> TRUE]
Some(v) == [some |-> v]
\* "no exception was raised"
NoException == "no exception"

TAB == "\t"
\* The characters str.strip() and str.lstrip() remove
Whitespace == {" ", TAB, "\n", "\r"}

\* The lines of the input files explored, each without its line terminator
\* (strip() removes it with the other whitespace): blank, one to three
\* fields, a commented line, a commented line after leading whitespace, a
\* line in surrounding whitespace, a line with several '#' at both ends.
Lines ==
    { <<>>,
      <<"a">>,
      <<"a", TAB, "b">>,
      <<"a", TAB, "b", TAB, "c">>,
      <<"#", "a", TAB, "b">>,
      <<" ", "#", "a">>,
      <<" ", "a", TAB, "b", " ">>,
      <<"#", "#", "a", TAB, "b", "#">> }
Files == UNION {[1..n -> Lines] : n \in 0..MaxLines}
\* The column_names arguments explored: not given, an empty list, one
\* name, two names
ColumnNamesArgs ==
    {None, Some(<<>>), Some(<< <<"x">> >>), Some(<< <<"x">>, <<"y">> >>)}

\* ------------------------------------------------------------------------
\* Python helpers
\* ------------------------------------------------------------------------

\* list.insert(i, x) for 0 <= i <= len(s)
ListInsert(s, i, x) == SubSeq(s, 1, i) \o <<x>> \o SubSeq(s, i + 1, Len(s))

\* str < str: lexicographic comparison of the character codes, a proper
\* prefix being smaller.
RECURSIVE StrLt(_, _)
StrLt(a, b) ==
    IF b = <<>> THEN FALSE
    ELSE IF a = <<>> THEN TRUE
    ELSE IF a[1] # b[1] THEN a[1] < b[1]
    ELSE StrLt(Tail(a), Tail(b))

StrLe(a, b) == a = b \/ StrLt(a, b)

\* bisect.bisect_right(a, x, lo, hi): the binary search of the bisect module
RECURSIVE bisect_right(_, _, _, _)
bisect_right(a, x, lo, hi) ==
    IF lo < hi
    THEN LET mid == (lo + hi) \div 2
         IN  IF StrLt(x, a[mid + 1])
             THEN bisect_right(a, x, lo, mid)
             ELSE bisect_right(a, x, mid + 1, hi)
    ELSE lo

\* bisect.bisect_left(a, x, lo, hi)
RECURSIVE bisect_left_search(_, _, _, _)
bisect_left_search(a, x, lo, hi) ==
    IF lo < hi
    THEN LET mid == (lo + hi) \div 2
         IN  IF StrLt(a[mid + 1], x)
             THEN bisect_left_search(a, x, mid + 1, hi)
             ELSE bisect_left_search(a, x, lo, mid)
    ELSE lo

\* ------------------------------------------------------------------------
\* microarraytowig.py: ProbesetData, IndexedProbesets
\* ------------------------------------------------------------------------

ProbesetData(probe_id, chrom, start, end) ==
    [chrom |-> chrom, start |-> start, end |-> end, id |-> probe_id]

\* A mutation of the insertion point: the new id always goes to the end.
bisect_append(a, x) == Len(a)

\* A mutation of the insertion point: bisect_left instead of bisect.
bisect_leftmost(a, x) == bisect_left_search(a, x, 0, Len(a))

\* bisect.bisect(a, x), which is bisect_right: the 0-based insertion point
\* after every element <= x
bisect(a, x) == bisect_right(a, x, 0, Len(a))

\* A mutation of the lookup point: bisect instead of bisect_left.
bisect_left_as_bisect(a, x) == bisect_right(a, x, 0, Len(a))

\* bisect.bisect_left(a, x): the 0-based insertion point before every
\* element >= x
bisect_left(a, x) == bisect_left_search(a, x, 0, Len(a))

\* A mutation of addProbesetData: an id that is already stored has its
\* ProbesetData replaced instead of a second entry being inserted.
addProbesetData_replace(ids, pdata, probe_id, chrom, start, end) ==
    LET i == bisect_left(ids, probe_id)
    IN  IF i < Len(ids) /\ ids[i + 1] = probe_id
        THEN [ids |-> ids,
              data |-> [pdata EXCEPT ![i + 1] = ProbesetData(probe_id, chrom, start, end)],
              i |-> i]
        ELSE [ids |-> ListInsert(ids, i, probe_id),
              data |-> ListInsert(pdata, i, ProbesetData(probe_id, chrom, start, end)),
              i |-> i]

\* A mutation of addProbesetData: the id goes to its sorted position and
\* the ProbesetData to the end of the data list.
addProbesetData_data_appended(ids, pdata, probe_id, chrom, start, end) ==
    LET i == bisect(ids, probe_id)
    IN  [ids |-> ListInsert(ids, i, probe_id),
         data |-> Append(pdata, ProbesetData(probe_id, chrom, start, end)),
         i |-> i]

\* IndexedProbesets.addProbesetData: the two lists after the call, and the
\* insertion point i it used
addProbesetData(ids, pdata, probe_id, chrom, start, end) ==
    LET i == bisect(ids, probe_id)
    IN  [ids |-> ListInsert(ids, i, probe_id),
         data |-> ListInsert(pdata, i, ProbesetData(probe_id, chrom, start, end)),
         i |-> i]

\* A mutation of getProbesetData: the entry before the bisect insertion
\* point, i.e. the last entry with the id.
getProbesetData_last(ids, pdata, probe_id) ==
    LET i == bisect(ids, probe_id)
    IN  IF ids = <<>> THEN [raised |-> "IndexError", value |-> None]
        ELSE IF i > 0 /\ ids[i] = probe_id
        THEN [raised |-> NoException, value |-> pdata[i]]
        ELSE [raised |-> NoException, value |-> None]

\* IndexedProbesets.getProbesetData: what the call raises (NoException when it
\* returns normally) and the value it returns.  ids[-1] of an empty list and ids[i]
\* with i = len(ids) raise IndexError.
getProbesetData(ids, pdata, probe_id) ==
    LET i == bisect_left(ids, probe_id)
    IN  IF ids = <<>> THEN [raised |-> "IndexError", value |-> None]
        ELSE IF StrLe(probe_id, ids[Len(ids)])
        THEN IF i >= Len(ids) THEN [raised |-> "IndexError", value |-> None]
             ELSE IF ids[i + 1] = probe_id
             THEN [raised |-> NoException, value |-> pdata[i + 1]]
             ELSE [raised |-> NoException, value |-> None]
        ELSE [raised |-> NoException, value |-> None]

\* IndexedProbesets.__len__
IndexLen(ids) == Len(ids)

\* IndexedProbesets.__init__
IndexInit ==
    /\ probeset_ids = <<>>
    /\ probeset_data = <<>>
    /\ supplied = [k \in ProbeIds |-> <<>>]
    /\ n_added = 0
    /\ ret = [op |-> "init"]

\* A call of addProbesetData(probe_id, chrom, start, end)
AddProbesetData ==
    /\ n_added < MaxEntries
    /\ \E probe_id \in ProbeIds, chrom \in Chroms, start \in Starts, end \in Ends :
          LET r == addProbesetData(probeset_ids, probeset_data, probe_id, chrom, start, end)
          IN  /\ probeset_ids' = r.ids
              /\ probeset_data' = r.data
              /\ supplied' = [supplied EXCEPT
                                ![probe_id] = Append(@, <<chrom, start, end>>)]
              /\ n_added' = n_added + 1
              /\ ret' = [op |-> "add", probe_id |-> probe_id, i |-> r.i]

\* A call of getProbesetData(probe_id)
GetProbesetData ==
    /\ \E probe_id \in ProbeIds :
          LET r == getProbesetData(probeset_ids, probeset_data, probe_id)
          IN  ret' = [op |-> "get", probe_id |-> probe_id,
                      raised |-> r.raised, value |-> r.value]
    /\ UNCHANGED <<probeset_ids, probeset_data, supplied, n_added>>

\* A call on a TabDataLine or a TabFile, as the history records it: the
\* method, its arguments, what it raised, what it returned and the object
\* it was made on, as it was before the call
Call(name, key, value, keys, raised, result, before) ==
    [name |-> name, key |-> key, value |-> value, keys |-> keys,
     raised |-> raised, ret |-> result, before |-> before]
NoCall == Call("none", None, None, <<>>, NoException, None, None)
NoArgs == [line |-> None, column_names |-> None, lineno |-> None]

\* No TabDataLine is built on its own, and no BedMaker
RecordIdle ==
    /\ tdl_args = NoArgs
    /\ tdl = None
    /\ call = NoCall
    /\ remove_i = 0

\* The table is not touched by the index
TableIdle ==
    /\ header = <<>>
    /\ ncols = 0
    /\ data = <<>>
    /\ fp = <<>>
    /\ column_names = None
    /\ arg_skip_first_line = FALSE
    /\ arg_first_line_is_header = FALSE
    /\ line_no = 0
    /\ skip_first_line = FALSE
    /\ first_line_is_header = FALSE
    /\ pc = "idle"
    /\ error = NoException

InitIndex == IndexInit /\ TableIdle /\ RecordIdle

NextIndex ==
    \/ AddProbesetData /\ UNCHANGED <<table_vars, record_vars, bedmaker_vars>>
    \/ GetProbesetData /\ UNCHANGED <<table_vars, record_vars, bedmaker_vars>>

SpecIndex == InitIndex /\ [][NextIndex]_vars

\* str.lstrip(chars), str.rstrip(chars), str.strip(chars)
RECURSIVE lstrip_chars(_, _)
lstrip_chars(s, chars) ==
    IF s # <<>> /\ s[1] \in chars THEN lstrip_chars(Tail(s), chars) ELSE s

RECURSIVE rstrip_chars(_, _)
rstrip_chars(s, chars) ==
    IF s # <<>> /\ s[Len(s)] \in chars
    THEN rstrip_chars(SubSeq(s, 1, Len(s) - 1), chars)
    ELSE s

strip_chars(s, chars) == rstrip_chars(lstrip_chars(s, chars), chars)

\* str.lstrip() and str.strip(): whitespace is removed
lstrip(s) == lstrip_chars(s, Whitespace)
strip(s) == strip_chars(s, Whitespace)

\* str.startswith(c) for a one-character c
startswith(s, c) == s # <<>> /\ s[1] = c

\* str.split(sep) for a one-character sep: the empty string gives one empty
\* field, n separators give n + 1 fields
RECURSIVE split(_, _)
split(s, sep) ==
    IF \E i \in 1..Len(s) : s[i] = sep
    THEN LET i == CHOOSE j \in 1..Len(s) :
                      s[j] = sep /\ \A k \in 1..(j - 1) : s[k] # sep
         IN  <<SubSeq(s, 1, i - 1)>> \o split(SubSeq(s, i + 1, Len(s)), sep)
    ELSE <<s>>


\* ------------------------------------------------------------------------
\* Python values that the TabDataLine methods convert or compare: a key or a
\* line number is an int, a str (a sequence of characters) or a float (held
\* in tenths: 35 is 3.5); None is the value None above.
\* ------------------------------------------------------------------------

PyInt(n) == [int |-> n]
PyStr(s) == [str |-> s]
PyFloat(tenths) == [float |-> tenths]
PyList == [list |-> <<>>]
IsInt(v) == DOMAIN v = {"int"}
IsStr(v) == DOMAIN v = {"str"}
IsFloat(v) == DOMAIN v = {"float"}

Digits == {"0", "1", "2", "3", "4", "5", "6", "7", "8", "9"}
DigitValue(c) ==
    CASE c = "0" -> 0 [] c = "1" -> 1 [] c = "2" -> 2 [] c = "3" -> 3
      [] c = "4" -> 4 [] c = "5" -> 5 [] c = "6" -> 6 [] c = "7" -> 7
      [] c = "8" -> 8 [] c = "9" -> 9

\* The value of a non-empty sequence of decimal digits
RECURSIVE DecimalValue(_)
DecimalValue(s) ==
    IF s = <<>> THEN 0
    ELSE 10 * DecimalValue(SubSeq(s, 1, Len(s) - 1)) + DigitValue(s[Len(s)])

\* int(s) for a str s: surrounding whitespace is ignored, one sign is
\* allowed, the rest must be decimal digits; anything else is a ValueError
int_of_str(s) ==
    LET t == strip_chars(s, Whitespace)
        signed == t # <<>> /\ t[1] \in {"+", "-"}
        digits == IF signed THEN Tail(t) ELSE t
    IN  IF digits # <<>> /\ \A i \in 1..Len(digits) : digits[i] \in Digits
        THEN [raised |-> NoException,
              value |-> IF signed /\ t[1] = "-" THEN 0 - DecimalValue(digits)
                        ELSE DecimalValue(digits)]
        ELSE [raised |-> "ValueError", value |-> 0]

\* int(v): an int is itself, a float is truncated towards zero, a str is
\* parsed, None and a list are a TypeError
int_of(v) ==
    IF IsInt(v) THEN [raised |-> NoException, value |-> v.int]
    ELSE IF IsFloat(v)
    THEN [raised |-> NoException,
          value |-> IF v.float >= 0 THEN v.float \div 10
                    ELSE 0 - ((0 - v.float) \div 10)]
    ELSE IF IsStr(v) THEN int_of_str(v.str)
    ELSE [raised |-> "TypeError", value |-> 0]

\* list[i] for an int i: whether the index is in range (negative indices
\* count from the end) and the 1-based position it denotes
InRange(s, i) == 0 - Len(s) <= i /\ i < Len(s)
ListPos(s, i) == IF i >= 0 THEN i + 1 ELSE Len(s) + i + 1

\* list.index(x) of a list of str for a key x: the 0-based position of the
\* first item equal to x, or -1 where Python raises ValueError.  A key that
\* is not a str equals no str.
index_of(names, key) ==
    IF IsStr(key) /\ \E i \in 1..Len(names) : names[i] = key.str
    THEN (CHOOSE i \in 1..Len(names) :
              names[i] = key.str /\ \A j \in 1..(i - 1) : names[j] # key.str) - 1
    ELSE 0 - 1

\* sep.join(items)
RECURSIVE join(_, _)
join(items, sep) ==
    IF items = <<>> THEN <<>>
    ELSE IF Len(items) = 1 THEN items[1]
    ELSE items[1] \o <<sep>> \o join(Tail(items), sep)

\* ------------------------------------------------------------------------
\* TabFile.py: TabDataLine
\* ------------------------------------------------------------------------

\* A mutation of the padding: nothing is appended
pad_nothing(items, n) == items

\* The while loop of TabDataLine.__init__: '' is appended until the data
\* has as many items as there are column names
RECURSIVE pad(_, _)
pad(items, n) == IF Len(items) < n THEN pad(Append(items, <<>>), n) ELSE items

\* A mutation of the line-number check: the sign is not tested.
lineno_invalid_unsigned(conv) == conv.raised # NoException

\* The line-number check of TabDataLine.__init__ on the outcome of
\* int(lineno): a TypeError of int() and a negative number make the number
\* invalid, and a ValueError of int() leaves the constructor as it is; in
\* all three cases the constructor raises ValueError
lineno_invalid(conv) == conv.raised # NoException \/ conv.value < 0

\* TabDataLine.__init__(line, column_names, lineno): line is None or
\* Some(string), column_names is None or Some(list of str), lineno is None
\* or Some(Python value).  The result holds the exception raised
\* (NoException when the object is built) and the object's data, names and
\* line number (None or Some(integer)).
TabDataLine(line, names, lineno) ==
    LET data0 == IF line = None THEN <<>> ELSE split(strip(line.some), TAB)
        truthy == names # None /\ names.some # <<>>
        names1 == IF truthy THEN names.some ELSE <<>>
        data1 == IF truthy THEN pad(data0, Len(names.some)) ELSE data0
    IN  IF lineno = None
        THEN [raised |-> NoException, data |-> data1, names |-> names1, lineno |-> None]
        ELSE IF lineno_invalid(int_of(lineno.some))
        THEN [raised |-> "ValueError", data |-> data1, names |-> names1, lineno |-> None]
        ELSE [raised |-> NoException, data |-> data1, names |-> names1,
              lineno |-> Some(int_of(lineno.some).value)]

\* The object a successful TabDataLine(...) call builds
Built(r) == [data |-> r.data, names |-> r.names, lineno |-> r.lineno]

\* A mutation of the key resolution: the key is tried as an integer index
\* first and looked up among the column names only when it is no integer
resolve_position_first(line, key) ==
    LET i == index_of(line.names, key)
        conv == int_of(key)
    IN  IF conv.raised = NoException
        THEN IF InRange(line.data, conv.value)
             THEN [raised |-> NoException, pos |-> ListPos(line.data, conv.value)]
             ELSE [raised |-> "KeyError", pos |-> 0]
        ELSE IF i >= 0 THEN [raised |-> NoException, pos |-> i + 1]
        ELSE [raised |-> "KeyError", pos |-> 0]

\* The position (1-based) of self.data that a key denotes in __getitem__
\* and __setitem__, and what the resolution raises: the name is looked up
\* first; a key that is no name is converted with int(), a ValueError of
\* int() becoming KeyError; an index out of range becomes KeyError.
resolve(line, key) ==
    LET i == index_of(line.names, key)
        conv == int_of(key)
    IN  IF i >= 0
        THEN IF i < Len(line.data)
             THEN [raised |-> NoException, pos |-> i + 1]
             ELSE [raised |-> "IndexError", pos |-> 0]
        ELSE IF conv.raised = "ValueError" THEN [raised |-> "KeyError", pos |-> 0]
        ELSE IF conv.raised # NoException THEN [raised |-> conv.raised, pos |-> 0]
        ELSE IF InRange(line.data, conv.value)
        THEN [raised |-> NoException, pos |-> ListPos(line.data, conv.value)]
        ELSE [raised |-> "KeyError", pos |-> 0]

\* TabDataLine.__getitem__(key): what it raises and Some(the value returned)
getitem(line, key) ==
    LET r == resolve(line, key)
    IN  IF r.raised # NoException THEN [raised |-> r.raised, value |-> None]
        ELSE [raised |-> NoException, value |-> Some(line.data[r.pos])]

\* A mutation of __setitem__: the key is taken as an integer index only,
\* the column names are not looked up
setitem_by_position(line, key, value) ==
    LET conv == int_of(key)
    IN  IF conv.raised = NoException /\ InRange(line.data, conv.value)
        THEN [raised |-> NoException,
              line |-> [line EXCEPT !.data =
                           [line.data EXCEPT ![ListPos(line.data, conv.value)] = value]]]
        ELSE [raised |-> "KeyError", line |-> line]

\* TabDataLine.__setitem__(key, value): what it raises and the object after
setitem(line, key, value) ==
    LET r == resolve(line, key)
    IN  IF r.raised # NoException THEN [raised |-> r.raised, line |-> line]
        ELSE [raised |-> NoException,
              line |-> [line EXCEPT !.data = [line.data EXCEPT ![r.pos] = value]]]

\* TabDataLine.__len__
len(line) == Len(line.data)

\* TabDataLine.append(*values)
append(line, values) == [line EXCEPT !.data = line.data \o values]

\* TabDataLine.lineno
lineno_of(line) == line.lineno

\* TabDataLine.__repr__
repr(line) == join(line.data, TAB)

\* The first loop of TabDataLine.subset for one key: the column name the
\* key stands for.  names[int(key)] is tried first, an IndexError of it is
\* not caught; when int(key) is a ValueError the key itself is the name if
\* it is one; no name, or an empty name, is a KeyError.
subset_name(line, key) ==
    LET conv == int_of(key)
    IN  IF conv.raised = "ValueError"
        THEN IF index_of(line.names, key) >= 0 /\ key.str # <<>>
             THEN [raised |-> NoException, name |-> key.str]
             ELSE [raised |-> "KeyError", name |-> <<>>]
        ELSE IF conv.raised # NoException
        THEN [raised |-> conv.raised, name |-> <<>>]
        ELSE IF ~InRange(line.names, conv.value)
        THEN [raised |-> "IndexError", name |-> <<>>]
        ELSE IF line.names[ListPos(line.names, conv.value)] = <<>>
        THEN [raised |-> "KeyError", name |-> <<>>]
        ELSE [raised |-> NoException,
              name |-> line.names[ListPos(line.names, conv.value)]]

\* The first exception the first loop of subset raises, or NoException
RECURSIVE subset_names_raised(_, _)
subset_names_raised(line, keys) ==
    IF keys = <<>> THEN NoException
    ELSE IF subset_name(line, Head(keys)).raised # NoException
    THEN subset_name(line, Head(keys)).raised
    ELSE subset_names_raised(line, Tail(keys))

\* The second loop of subset: subset[name[key]] = self[key] for each key
RECURSIVE subset_fill(_, _, _)
subset_fill(line, sub, keys) ==
    IF keys = <<>> THEN [raised |-> NoException, value |-> sub]
    ELSE LET got == getitem(line, Head(keys))
             put == setitem(sub, PyStr(subset_name(line, Head(keys)).name),
                            got.value.some)
         IN  IF got.raised # NoException THEN [raised |-> got.raised, value |-> sub]
             ELSE IF put.raised # NoException THEN [raised |-> put.raised, value |-> sub]
             ELSE subset_fill(line, put.line, Tail(keys))

\* TabDataLine.subset(*keys): what it raises and the TabDataLine it returns
subset(line, keys) ==
    LET raised == subset_names_raised(line, keys)
        subset_column_names ==
            [j \in 1..Len(keys) |-> subset_name(line, keys[j]).name]
    IN  IF raised # NoException THEN [raised |-> raised, value |-> None]
        ELSE subset_fill(line,
                         Built(TabDataLine(None, Some(subset_column_names), None)),
                         keys)

\* ------------------------------------------------------------------------
\* TabFile.py: TabFile
\* ------------------------------------------------------------------------

\* A mutation of setHeader: the warning is logged instead of raising, so a
\* header that is already set is replaced
setHeader_logged(hdr, nc, names) ==
    [raised |-> NoException, header |-> names, ncols |-> Len(names)]

\* TabFile.setHeader(column_names) on a table with header hdr and column
\* count nc.  The module never imports logging, so the logging.warning call
\* made when a header is already set raises NameError before the header is
\* touched.
setHeader(hdr, nc, names) ==
    IF Len(hdr) > 0
    THEN [raised |-> "NameError", header |-> hdr, ncols |-> nc]
    ELSE [raised |-> NoException, header |-> hdr \o names, ncols |-> Len(hdr \o names)]

\* The table and the locals of __load, as one value
TableState ==
    [header |-> header, ncols |-> ncols, data |-> data, line_no |-> line_no,
     skip_first_line |-> skip_first_line,
     first_line_is_header |-> first_line_is_header,
     pc |-> pc, error |-> error]

\* A mutation of the comment test: leading whitespace is not stripped.
is_comment_line_unstripped(line) == startswith(line, "#")

\* The test of __load for a commented line: line.lstrip().startswith('#')
is_comment_line(line) == startswith(lstrip(line), "#")

\* A mutation of the skip branch: the flag is not cleared.
skip_line_keep_flag(st) == st

\* The skip_first_line branch of __load: the flag is cleared and the line
\* is dropped
skip_line(st) == [st EXCEPT !.skip_first_line = FALSE]

\* A mutation of the header line: one leading '#' is removed, no other.
header_names_one_hash(line) ==
    LET s == strip(line)
    IN  split(IF startswith(s, "#") THEN Tail(s) ELSE s, TAB)

\* The column names __load takes from the header line:
\* line.strip().strip('#').split('\t')
header_names(line) == split(strip_chars(strip(line), {"#"}), TAB)

\* One iteration of the for loop of TabFile.__load on the table state st:
\* the state after `line` has been read
load_line(st, line) ==
    LET n == st.line_no + 1
        st1 == [st EXCEPT !.line_no = n]
    IN  IF st.skip_first_line
        THEN skip_line(st1)
        ELSE IF st.first_line_is_header
        THEN LET h == setHeader(st.header, st.ncols, header_names(line))
             IN  IF h.raised # NoException
                 THEN [st1 EXCEPT !.pc = "failed", !.error = h.raised]
                 ELSE [st1 EXCEPT !.header = h.header, !.ncols = h.ncols,
                                  !.first_line_is_header = FALSE]
        ELSE IF is_comment_line(line)
        THEN st1
        ELSE LET data_line == TabDataLine(Some(line), Some(st.header), Some(PyInt(n)))
             IN  IF data_line.raised # NoException
                 THEN [st1 EXCEPT !.pc = "failed", !.error = data_line.raised]
                 ELSE IF st.ncols > 0 /\ Len(data_line.data) < st.ncols
                 \* logging.error is reached before the raise of IndexError
                 THEN [st1 EXCEPT !.pc = "failed", !.error = "NameError"]
                 ELSE [st1 EXCEPT !.data = Append(st.data,
                                        [data |-> data_line.data,
                                         names |-> data_line.names,
                                         lineno |-> data_line.lineno])]

\* The index is not touched by the table
IndexIdle == IndexInit

\* The arguments of TabFile(filen, fp, column_names, skip_first_line,
\* first_line_is_header), before the constructor body runs
InitTable ==
    /\ IndexIdle
    /\ RecordIdle
    /\ fp \in Files
    /\ column_names \in ColumnNamesArgs
    /\ arg_skip_first_line \in BOOLEAN
    /\ arg_first_line_is_header \in BOOLEAN
    /\ header = <<>>
    /\ ncols = 0
    /\ data = <<>>
    /\ line_no = 0
    /\ skip_first_line = FALSE
    /\ first_line_is_header = FALSE
    /\ pc = "init"
    /\ error = NoException

\* TabFile.__init__ up to the call of __load: the header is set from
\* column_names, and __load starts with line_no = 0 and the two flags
TabFileInit ==
    /\ pc = "init"
    /\ LET h == IF column_names # None
                THEN setHeader(<<>>, 0, column_names.some)
                ELSE [raised |-> NoException, header |-> <<>>, ncols |-> 0]
       IN  /\ header' = h.header
           /\ ncols' = h.ncols
           /\ error' = h.raised
           /\ pc' = IF h.raised = NoException THEN "load" ELSE "failed"
    /\ data' = <<>>
    /\ line_no' = 0
    /\ skip_first_line' = arg_skip_first_line
    /\ first_line_is_header' = arg_first_line_is_header
    /\ UNCHANGED <<fp, column_names, arg_skip_first_line, arg_first_line_is_header>>

\* TabFile.__load: the next line of fp is read and processed
LoadLine ==
    /\ pc = "load"
    /\ line_no < Len(fp)
    /\ LET st == load_line(TableState, fp[line_no + 1])
       IN  /\ header' = st.header
           /\ ncols' = st.ncols
           /\ data' = st.data
           /\ line_no' = st.line_no
           /\ skip_first_line' = st.skip_first_line
           /\ first_line_is_header' = st.first_line_is_header
           /\ pc' = st.pc
           /\ error' = st.error
    /\ UNCHANGED <<fp, column_names, arg_skip_first_line, arg_first_line_is_header>>

\* TabFile.__load returns at the end of fp, and __init__ closes fp
LoadEnd ==
    /\ pc = "load"
    /\ line_no = Len(fp)
    /\ pc' = "done"
    /\ UNCHANGED <<header, ncols, data, fp, column_names, arg_skip_first_line,
                   arg_first_line_is_header, line_no, skip_first_line,
                   first_line_is_header, error>>

NextTable ==
    \/ TabFileInit /\ UNCHANGED <<index_vars, record_vars, bedmaker_vars>>
    \/ LoadLine /\ UNCHANGED <<index_vars, record_vars, bedmaker_vars>>
    \/ LoadEnd /\ UNCHANGED <<index_vars, record_vars, bedmaker_vars>>

SpecTable == InitTable /\ [][NextTable]_vars

\* ------------------------------------------------------------------------
\* A TabDataLine on its own: it is built from its arguments and then used
\* through its methods
\* ------------------------------------------------------------------------

\* The line argument: None, or a line of tab-separated values, among them
\* lines with an empty first, middle or last value and a line with
\* whitespace around it
RecordLines ==
    {<<>>, <<"a">>, <<"a", TAB, "b">>, <<"a", TAB, "b", TAB, "c">>,
     <<"a", TAB>>, <<TAB, "a">>, <<"a", TAB, TAB, "b">>, <<TAB>>,
     <<" ", "a", TAB, "b", " ">>}
LineArgs == {None} \cup {Some(l) : l \in RecordLines}

\* The column_names argument: None, or a list of names, among them names
\* that are integer literals, a repeated name and an empty name
NamesArgs ==
    {None, Some(<< <<"x">>, <<"y">> >>), Some(<< <<"x">>, <<"y">>, <<"z">> >>),
     Some(<< <<"1">>, <<"0">> >>), Some(<< <<"x">>, <<"x">> >>),
     Some(<< <<>>, <<"y">> >>)}

\* The lineno argument: None, ints, strs, floats (in tenths) and a list
LinenoArgs ==
    {None, Some(PyInt(0 - 3)), Some(PyInt(0)), Some(PyInt(3)),
     Some(PyStr(<<"t", "h", "r", "e", "e">>)), Some(PyStr(<<"3">>)),
     Some(PyFloat(35)), Some(PyList)}

\* The keys of __getitem__, __setitem__ and subset
Keys ==
    {PyStr(<<"x">>), PyStr(<<"1">>), PyStr(<<"q">>),
     PyInt(0), PyInt(1), PyInt(2), PyInt(0 - 1), PyInt(5)}

\* The values of __setitem__ and append
Values == {<<"v">>}
AppendArgs == {<<v>> : v \in Values}

\* The argument lists of subset
SubsetArgs ==
    {<<PyInt(2), PyInt(1), PyInt(2)>>, <<PyInt(0)>>, <<PyInt(1), PyInt(0)>>,
     <<PyStr(<<"x">>)>>, <<PyStr(<<"x">>), PyInt(1)>>, <<PyStr(<<"q">>)>>,
     <<PyInt(5)>>, <<PyStr(<<"1">>), PyInt(1)>>, <<PyInt(0 - 1)>>}

InitRecord ==
    /\ IndexIdle
    /\ TableIdle
    /\ tdl_args \in [line : LineArgs, column_names : NamesArgs, lineno : LinenoArgs]
    /\ tdl = None
    /\ call = NoCall
    /\ remove_i = 0

\* TabDataLine(line, column_names, lineno)
New ==
    /\ call.name = "none"
    /\ LET r == TabDataLine(tdl_args.line, tdl_args.column_names, tdl_args.lineno)
       IN  /\ tdl' = IF r.raised = NoException THEN Built(r) ELSE None
           /\ call' = Call("TabDataLine", None, None, <<>>, r.raised, None, None)
    /\ UNCHANGED tdl_args

\* value = line[key]
GetItem ==
    /\ tdl # None
    /\ \E key \in Keys :
          LET r == getitem(tdl, key)
          IN  call' = Call("getitem", key, None, <<>>, r.raised, r.value, tdl)
    /\ UNCHANGED <<tdl_args, tdl>>

\* line[key] = value
SetItem ==
    /\ tdl # None
    /\ \E key \in Keys, value \in Values :
          LET r == setitem(tdl, key, value)
          IN  /\ tdl' = r.line
              /\ call' = Call("setitem", key, Some(value), <<>>, r.raised, None, tdl)
    /\ UNCHANGED tdl_args

\* line.append(*values)
AppendCall ==
    /\ tdl # None
    /\ \E values \in AppendArgs :
          /\ len(tdl) + Len(values) <= MaxFields
          /\ tdl' = append(tdl, values)
          /\ call' = Call("append", None, None, values, NoException, None, tdl)
    /\ UNCHANGED tdl_args

\* line.subset(*keys)
Subset ==
    /\ tdl # None
    /\ \E keys \in SubsetArgs :
          LET r == subset(tdl, keys)
          IN  call' = Call("subset", None, None, keys, r.raised, r.value, tdl)
    /\ UNCHANGED <<tdl_args, tdl>>

\* len(line)
LenCall ==
    /\ tdl # None
    /\ call' = Call("len", None, None, <<>>, NoException, PyInt(len(tdl)), tdl)
    /\ UNCHANGED <<tdl_args, tdl>>

\* str(line)
Repr ==
    /\ tdl # None
    /\ call' = Call("repr", None, None, <<>>, NoException, PyStr(repr(tdl)), tdl)
    /\ UNCHANGED <<tdl_args, tdl>>

\* line.lineno()
LinenoCall ==
    /\ tdl # None
    /\ call' = Call("lineno", None, None, <<>>, NoException, lineno_of(tdl), tdl)
    /\ UNCHANGED <<tdl_args, tdl>>

NextRecord ==
    \/ New /\ UNCHANGED <<index_vars, table_vars, bedmaker_vars>>
    \/ GetItem /\ UNCHANGED <<index_vars, table_vars, bedmaker_vars>>
    \/ SetItem /\ UNCHANGED <<index_vars, table_vars, bedmaker_vars>>
    \/ AppendCall /\ UNCHANGED <<index_vars, table_vars, bedmaker_vars>>
    \/ Subset /\ UNCHANGED <<index_vars, table_vars, bedmaker_vars>>
    \/ LenCall /\ UNCHANGED <<index_vars, table_vars, bedmaker_vars>>
    \/ Repr /\ UNCHANGED <<index_vars, table_vars, bedmaker_vars>>
    \/ LinenoCall /\ UNCHANGED <<index_vars, table_vars, bedmaker_vars>>

SpecRecord == InitRecord /\ [][NextRecord]_vars

\* ------------------------------------------------------------------------
\* A TabFile after its load: data lines are inserted and deleted, and the
\* data lines of the table are used through their methods
\* ------------------------------------------------------------------------

\* list.insert(i, x) for any int i: a negative i counts from the end, and
\* an i beyond either end inserts at that end
list_insert(s, i, x) ==
    LET j == IF i < 0 THEN i + Len(s) ELSE i
        p == IF j < 0 THEN 0 ELSE IF j > Len(s) THEN Len(s) ELSE j
    IN  ListInsert(s, p, x)

\* A mutation of TabFile.insert: the new data line goes to the end
insert_at_end(lines, hdr, i) ==
    Append(lines, Built(TabDataLine(None, Some(hdr), None)))

\* TabFile.insert(i): the list of data lines after the call
insert(lines, hdr, i) ==
    list_insert(lines, i, Built(TabDataLine(None, Some(hdr), None)))

\* s with the item at position p (from 1) removed
Remove(s, p) == SubSeq(s, 1, p - 1) \o SubSeq(s, p + 1, Len(s))

\* A mutation of TabFile.__delitem__: the data lines after the deleted one
\* are given the line number of the line before them
delitem_renumber(lines, i) ==
    IF InRange(lines, i)
    THEN [raised |-> NoException,
          data |-> [j \in 1..(Len(lines) - 1) |->
                       IF j < ListPos(lines, i) THEN lines[j]
                       ELSE [lines[j + 1] EXCEPT !.lineno = lines[j].lineno]]]
    ELSE [raised |-> "IndexError", data |-> lines]

\* TabFile.__delitem__(key): what it raises and the list of data lines after
delitem(lines, i) ==
    IF InRange(lines, i)
    THEN [raised |-> NoException, data |-> Remove(lines, ListPos(lines, i))]
    ELSE [raised |-> "IndexError", data |-> lines]

\* A mutation of indexByLineNumber: line n is taken to be at index n - 1
indexByLineNumber_position(lines, n) ==
    IF 1 <= n /\ n <= Len(lines)
    THEN [raised |-> NoException, value |-> n - 1]
    ELSE [raised |-> "IndexError", value |-> 0]

\* TabFile.indexByLineNumber(n): what it raises and the index it returns,
\* that of the first data line whose lineno() is n
indexByLineNumber(lines, n) ==
    IF \E p \in 1..Len(lines) : lines[p].lineno = Some(n)
    THEN [raised |-> NoException,
          value |-> (CHOOSE p \in 1..Len(lines) :
                        /\ lines[p].lineno = Some(n)
                        /\ \A q \in 1..(p - 1) : lines[q].lineno # Some(n)) - 1]
    ELSE [raised |-> "IndexError", value |-> 0]

\* The for loop of TabFile.lookup from the data line at position p on,
\* with the result list built so far
RECURSIVE lookup_from(_, _, _, _, _)
lookup_from(lines, key, value, p, found) ==
    IF p > Len(lines) THEN [raised |-> NoException, value |-> found]
    ELSE LET got == getitem(lines[p], key)
         IN  IF got.raised # NoException
             THEN [raised |-> got.raised, value |-> <<>>]
             ELSE lookup_from(lines, key, value, p + 1,
                              IF got.value = Some(value)
                              THEN Append(found, lines[p]) ELSE found)

\* A mutation of TabFile.lookup: the loop ends at the first match
lookup_first_match(lines, key, value) ==
    LET r == lookup_from(lines, key, value, 1, <<>>)
    IN  [r EXCEPT !.value = IF @ = <<>> THEN <<>> ELSE <<Head(@)>>]

\* TabFile.lookup(key, value): what it raises and the list it returns
lookup(lines, key, value) == lookup_from(lines, key, value, 1, <<>>)

\* The files, column_names arguments and indices of the edited tables
EditFiles ==
    {<< <<"#", "a", TAB, "b">>, <<"a", TAB, "b">> >>,
     << <<"a", TAB, "b">>, <<"#", "a", TAB, "b">>, <<"a", TAB, "b">> >>}
EditColumnNames == {None, Some(<< <<"x">>, <<"y">> >>)}
Indexes == {0, 1, 0 - 1}
EditKeys == {PyInt(0)}
LineNos == {1, 2, 3}
LookupKeys == {PyInt(0), PyStr(<<"x">>)}
LookupValues == {<<"a">>, <<"v">>}
SetHeaderArgs == {<< <<"x">> >>}

InitEdit ==
    /\ IndexIdle
    /\ RecordIdle
    /\ fp \in EditFiles
    /\ column_names \in EditColumnNames
    /\ arg_skip_first_line = FALSE
    /\ arg_first_line_is_header \in BOOLEAN
    /\ header = <<>>
    /\ ncols = 0
    /\ data = <<>>
    /\ line_no = 0
    /\ skip_first_line = FALSE
    /\ first_line_is_header = FALSE
    /\ pc = "init"
    /\ error = NoException

\* What a call on the loaded table leaves alone
EditFrame ==
    UNCHANGED <<header, ncols, fp, column_names, arg_skip_first_line,
                arg_first_line_is_header, line_no, skip_first_line,
                first_line_is_header, pc, error, tdl_args, tdl>>

\* tabfile.insert(i)
Insert ==
    /\ pc = "done"
    /\ Len(data) < MaxRows
    /\ \E i \in Indexes :
          /\ data' = insert(data, header, i)
          /\ call' = Call("insert", PyInt(i), None, <<>>, NoException, None, None)
    /\ EditFrame

\* del tabfile[i]
DelItem ==
    /\ pc = "done"
    /\ \E i \in Indexes :
          LET r == delitem(data, i)
          IN  /\ data' = r.data
              /\ call' = Call("delitem", PyInt(i), None, <<>>, r.raised, None, None)
    /\ EditFrame

\* tabfile[i][key]
RowGetItem ==
    /\ pc = "done"
    /\ \E i \in Indexes, key \in EditKeys :
          /\ InRange(data, i)
          /\ LET line == data[ListPos(data, i)]
                 r == getitem(line, key)
             IN  call' = Call("getitem", key, None, <<>>, r.raised, r.value, line)
    /\ UNCHANGED data
    /\ EditFrame

\* tabfile[i][key] = value
RowSetItem ==
    /\ pc = "done"
    /\ \E i \in Indexes, key \in EditKeys, value \in Values :
          /\ InRange(data, i)
          /\ LET line == data[ListPos(data, i)]
                 r == setitem(line, key, value)
             IN  /\ data' = [data EXCEPT ![ListPos(data, i)] = r.line]
                 /\ call' = Call("setitem", key, Some(value), <<>>, r.raised, None, line)
    /\ EditFrame

\* tabfile[i].append(*values)
RowAppend ==
    /\ pc = "done"
    /\ \E i \in Indexes, values \in AppendArgs :
          /\ InRange(data, i)
          /\ LET line == data[ListPos(data, i)]
             IN  /\ len(line) + Len(values) <= MaxFields
                 /\ data' = [data EXCEPT ![ListPos(data, i)] = append(line, values)]
                 /\ call' = Call("append", None, None, values, NoException, None, line)
    /\ EditFrame

\* tabfile[i].subset(*keys)
RowSubset ==
    /\ pc = "done"
    /\ \E i \in Indexes, key \in EditKeys :
          /\ InRange(data, i)
          /\ LET line == data[ListPos(data, i)]
                 r == subset(line, <<key>>)
             IN  call' = Call("subset", None, None, <<key>>, r.raised, r.value, line)
    /\ UNCHANGED data
    /\ EditFrame

\* str(tabfile[i])
RowRepr ==
    /\ pc = "done"
    /\ \E i \in Indexes :
          /\ InRange(data, i)
          /\ LET line == data[ListPos(data, i)]
             IN  call' = Call("repr", None, None, <<>>, NoException, PyStr(repr(line)), line)
    /\ UNCHANGED data
    /\ EditFrame

\* tabfile.indexByLineNumber(n)
IndexByLineNumber ==
    /\ pc = "done"
    /\ \E n \in LineNos :
          LET r == indexByLineNumber(data, n)
          IN  call' = Call("indexByLineNumber", PyInt(n), None, <<>>, r.raised,
                           PyInt(r.value), None)
    /\ UNCHANGED data
    /\ EditFrame

\* tabfile.lookup(key, value)
Lookup ==
    /\ pc = "done"
    /\ \E key \in LookupKeys, value \in LookupValues :
          LET r == lookup(data, key, value)
          IN  call' = Call("lookup", key, Some(value), <<>>, r.raised,
                           Some(r.value), None)
    /\ UNCHANGED data
    /\ EditFrame

\* tabfile.setHeader(column_names), called on the loaded table
SetHeader ==
    /\ pc = "done"
    /\ \E names \in SetHeaderArgs :
          LET h == setHeader(header, ncols, names)
          IN  /\ header' = h.header
              /\ ncols' = h.ncols
              /\ call' = Call("setHeader", None, None, names, h.raised, None, None)
    /\ UNCHANGED <<data, fp, column_names, arg_skip_first_line,
                   arg_first_line_is_header, line_no, skip_first_line,
                   first_line_is_header, pc, error, tdl_args, tdl>>

NextEdit ==
    \/ IndexByLineNumber /\ UNCHANGED <<index_vars, bedmaker_vars>>
    \/ Lookup /\ UNCHANGED <<index_vars, bedmaker_vars>>
    \/ SetHeader /\ UNCHANGED <<index_vars, bedmaker_vars>>
    \/ TabFileInit /\ UNCHANGED <<index_vars, record_vars, bedmaker_vars>>
    \/ LoadLine /\ UNCHANGED <<index_vars, record_vars, bedmaker_vars>>
    \/ LoadEnd /\ UNCHANGED <<index_vars, record_vars, bedmaker_vars>>
    \/ Insert /\ UNCHANGED <<index_vars, bedmaker_vars>>
    \/ DelItem /\ UNCHANGED <<index_vars, bedmaker_vars>>
    \/ RowGetItem /\ UNCHANGED <<index_vars, bedmaker_vars>>
    \/ RowSetItem /\ UNCHANGED <<index_vars, bedmaker_vars>>
    \/ RowAppend /\ UNCHANGED <<index_vars, bedmaker_vars>>
    \/ RowSubset /\ UNCHANGED <<index_vars, bedmaker_vars>>
    \/ RowRepr /\ UNCHANGED <<index_vars, bedmaker_vars>>

SpecEdit == InitEdit /\ [][NextEdit]_vars

\* ------------------------------------------------------------------------
\* bedMakerUtils.py: BedMaker.__init__
\* ------------------------------------------------------------------------

\* str.isdigit()
isdigit(s) == s # <<>> /\ \A j \in 1..Len(s) : s[j] \in Digits

\* The test of the blank-line loop: not str(self[i]).strip()
is_blank(line) == strip(repr(line)) = <<>>

\* The check of the first data line in BedMaker.__init__: what it raises
\* and the data lines after it.  The first line is deleted when its
\* 'start' or its 'stop' is not a number.
first_line_check(lines) ==
    IF Len(lines) = 0 THEN [raised |-> NoException, data |-> lines]
    ELSE LET start == getitem(lines[1], PyStr(<<"s", "t", "a", "r", "t">>))
             stop == getitem(lines[1], PyStr(<<"s", "t", "o", "p">>))
         IN  IF start.raised # NoException
             THEN [raised |-> start.raised, data |-> lines]
             ELSE IF ~isdigit(start.value.some)
             THEN [raised |-> NoException, data |-> Tail(lines)]
             ELSE IF stop.raised # NoException
             THEN [raised |-> stop.raised, data |-> lines]
             ELSE IF ~isdigit(stop.value.some)
             THEN [raised |-> NoException, data |-> Tail(lines)]
             ELSE [raised |-> NoException, data |-> lines]

\* A mutation of the loop body: i is advanced after a deletion as well
remove_step_advance(lines, i) ==
    IF is_blank(lines[i + 1])
    THEN [data |-> Remove(lines, i + 1), i |-> i + 1]
    ELSE [data |-> lines, i |-> i + 1]

\* The body of the while loop of BedMaker.__init__ for i < len(self): the
\* data lines and i after it
remove_step(lines, i) ==
    IF is_blank(lines[i + 1])
    THEN [data |-> Remove(lines, i + 1), i |-> i]
    ELSE [data |-> lines, i |-> i + 1]

\* The lines of the input files of BedMaker: an empty line, a line of
\* blanks, a data line, a line of column titles
BedLines ==
    {<<>>, <<" ">>, <<"c", TAB, "1", TAB, "2">>, <<"c", TAB, "s", TAB, "e">>}
BedFiles == UNION {[1..n -> BedLines] : n \in 0..MaxLines}
BedColumnNames ==
    {Some(<< <<"c", "h", "r">>, <<"s", "t", "a", "r", "t">>, <<"s", "t", "o", "p">> >>),
     Some(<< <<"x">> >>)}

\* The arguments of BedMaker(infile, column_names)
InitBedMaker ==
    /\ IndexIdle
    /\ RecordIdle
    /\ fp \in BedFiles
    /\ column_names \in BedColumnNames
    /\ arg_skip_first_line = FALSE
    /\ arg_first_line_is_header = FALSE
    /\ header = <<>>
    /\ ncols = 0
    /\ data = <<>>
    /\ line_no = 0
    /\ skip_first_line = FALSE
    /\ first_line_is_header = FALSE
    /\ pc = "init"
    /\ error = NoException

\* What the steps of BedMaker.__init__ after the load leave alone
BedMakerFrame ==
    UNCHANGED <<header, ncols, fp, column_names, arg_skip_first_line,
                arg_first_line_is_header, line_no, skip_first_line,
                first_line_is_header, index_vars, tdl_args, tdl, call>>

\* BedMaker.__init__ after TabFile.__init__ has returned: the first data
\* line is checked, and i = 0 starts the blank-line loop
FirstLineCheck ==
    /\ pc = "done"
    /\ LET r == first_line_check(data)
       IN  /\ data' = r.data
           /\ error' = r.raised
           /\ pc' = IF r.raised = NoException THEN "remove" ELSE "failed"
    /\ remove_i' = 0
    /\ BedMakerFrame

\* One iteration of the blank-line loop
RemoveStep ==
    /\ pc = "remove"
    /\ remove_i < Len(data)
    /\ LET r == remove_step(data, remove_i)
       IN  /\ data' = r.data
           /\ remove_i' = r.i
    /\ UNCHANGED <<pc, error>>
    /\ BedMakerFrame

\* The loop condition i < len(self) fails and the constructor returns
RemoveEnd ==
    /\ pc = "remove"
    /\ remove_i >= Len(data)
    /\ pc' = "ready"
    /\ UNCHANGED <<data, error, remove_i>>
    /\ BedMakerFrame

NextBedMaker ==
    \/ TabFileInit /\ UNCHANGED <<index_vars, record_vars, bedmaker_vars>>
    \/ LoadLine /\ UNCHANGED <<index_vars, record_vars, bedmaker_vars>>
    \/ LoadEnd /\ UNCHANGED <<index_vars, record_vars, bedmaker_vars>>
    \/ FirstLineCheck
    \/ RemoveStep
    \/ RemoveEnd

\* The constructor is sequential code: it keeps running until it returns
\* or raises
SpecBedMaker == InitBedMaker /\ [][NextBedMaker]_vars /\ WF_vars(NextBedMaker)

\* ------------------------------------------------------------------------
\* Properties of IndexedProbesets (checked under SpecIndex)
\* ------------------------------------------------------------------------

IsSorted(ids) == \A i \in 1..(Len(ids) - 1) : StrLe(ids[i], ids[i + 1])
Positions(ids, k) == {i \in 1..Len(ids) : ids[i] = k}
IsStored(k) == Positions(probeset_ids, k) # {}
MinOf(S) == CHOOSE m \in S : \A n \in S : m <= n
Last(s) == s[Len(s)]
\* The ProbesetData that the n-th addProbesetData call for id k built
SuppliedData(k, n) ==
    ProbesetData(k, supplied[k][n][1], supplied[k][n][2], supplied[k][n][3])
KeysDistinct == \A k \in ProbeIds : Len(supplied[k]) <= 1

\* C1: after every addProbesetData, whatever the order of the ids and
\* whatever duplicates there are, the stored id sequence is non-decreasing.
C1_KeysSorted == IsSorted(probeset_ids)

\* C1 witness: three ids are stored, among them a duplicate, and the last
\* call inserted in front of the ids already stored (out of order input).
C1_Witness ==
    /\ ret.op = "add"
    /\ Len(probeset_ids) = 3
    /\ ret.i = 0
    /\ \E k \in ProbeIds : Cardinality(Positions(probeset_ids, k)) = 2

\* C2: when all inserted ids are pairwise distinct, getProbesetData(k) of
\* an inserted id k returns exactly the ProbesetData built from the
\* (chrom, start, end) that was supplied together with k.
C2_LookupReturnsSupplied ==
    (ret.op = "get" /\ KeysDistinct /\ supplied[ret.probe_id] # <<>>)
        => /\ ret.raised = NoException
           /\ ret.value = SuppliedData(ret.probe_id, 1)

\* C2 witness: three distinct ids were inserted and the middle one of the
\* sorted sequence has been looked up.
C2_Witness ==
    /\ ret.op = "get"
    /\ KeysDistinct
    /\ n_added = 3
    /\ ret.probe_id = probeset_ids[2]
    /\ ret.value = SuppliedData(ret.probe_id, 1)

\* C3 (as claimed): in every reachable index state, the new empty index
\* included, getProbesetData of an id that is not stored returns None and
\* raises nothing.
C3_AbsentKeyReturnsNone ==
    (ret.op = "get" /\ ~IsStored(ret.probe_id))
        => /\ ret.raised = NoException
           /\ ret.value = None

\* The leftmost and the rightmost 0-based position at which k can be
\* inserted into the sorted sequence ids keeping it non-decreasing.
LeftmostPoint(ids, k) == Cardinality({j \in 1..Len(ids) : StrLt(ids[j], k)})
RightmostPoint(ids, k) == Cardinality({j \in 1..Len(ids) : StrLe(ids[j], k)})

\* The step is an addProbesetData call that put the id and its
\* ProbesetData at 0-based position p of both lists.
InsertedAt(p) ==
    LET k == ret'.probe_id
        new == ProbesetData(k, Last(supplied'[k])[1], Last(supplied'[k])[2],
                            Last(supplied'[k])[3])
    IN  /\ probeset_ids' = ListInsert(probeset_ids, p, k)
        /\ probeset_data' = ListInsert(probeset_data, p, new)

\* C4 (as claimed): addProbesetData places the new entry at the leftmost
\* position that keeps the id sequence non-decreasing, i.e. before every
\* existing entry with the same id.
C4_InsertLeftmost ==
    [][n_added' = n_added + 1
         => InsertedAt(LeftmostPoint(probeset_ids, ret'.probe_id))]_vars

\* C4 (amended): addProbesetData places the new entry at the rightmost
\* position that keeps the id sequence non-decreasing, i.e. after every
\* existing entry with the same id.
C4_InsertRightmost ==
    [][n_added' = n_added + 1
         => InsertedAt(RightmostPoint(probeset_ids, ret'.probe_id))]_vars

\* C4 witness: the last call inserted an id that was already stored, with
\* a payload different from the stored one.
C4_Witness ==
    /\ ret.op = "add"
    /\ Len(supplied[ret.probe_id]) = 2
    /\ supplied[ret.probe_id][1] # supplied[ret.probe_id][2]

\* C5: when an id is stored more than once, getProbesetData returns the
\* ProbesetData at the leftmost position of the id sequence that holds the
\* id.
C5_LookupLeftmostDuplicate ==
    (ret.op = "get" /\ Cardinality(Positions(probeset_ids, ret.probe_id)) >= 2)
        => /\ ret.raised = NoException
           /\ ret.value = probeset_data[MinOf(Positions(probeset_ids, ret.probe_id))]

\* C5 witness: an id stored twice with different payloads has been looked
\* up.
C5_Witness ==
    /\ ret.op = "get"
    /\ \E i, j \in Positions(probeset_ids, ret.probe_id) :
          i < j /\ probeset_data[i] # probeset_data[j]
    /\ ret.value = probeset_data[MinOf(Positions(probeset_ids, ret.probe_id))]

\* C6: len() always equals the number of addProbesetData calls made so far
\* (duplicates counted), no step decreases it, and getProbesetData leaves it
\* unchanged.
C6_SizeCountsInserts ==
    /\ [](IndexLen(probeset_ids) = n_added)
    /\ [][/\ IndexLen(probeset_ids') >= IndexLen(probeset_ids)
          /\ (n_added' = n_added => IndexLen(probeset_ids') = IndexLen(probeset_ids))]_vars

\* C6 witness: three calls, two of them with the same id, then a lookup.
C6_Witness ==
    /\ ret.op = "get"
    /\ n_added = 3
    /\ IndexLen(probeset_ids) = 3
    /\ \E k \in ProbeIds : Len(supplied[k]) = 2

\* C26: when an id was inserted more than once, getProbesetData returns
\* the ProbesetData of the earliest addProbesetData call for that id,
\* whatever was inserted afterwards, and so none of a later call for it
\* that differs from the earliest
C26_FirstInsertionWins ==
    (ret.op = "get" /\ Len(supplied[ret.probe_id]) >= 2)
        => /\ ret.raised = NoException
           /\ ret.value = SuppliedData(ret.probe_id, 1)
           /\ \A n \in 2..Len(supplied[ret.probe_id]) :
                  supplied[ret.probe_id][n] # supplied[ret.probe_id][1]
                      => ret.value # SuppliedData(ret.probe_id, n)

\* C26 case: an id inserted twice with different payloads, another id
\* inserted in between or afterwards, and the id has been looked up
C26_Witness ==
    /\ ret.op = "get"
    /\ n_added = 3
    /\ Len(supplied[ret.probe_id]) = 2
    /\ supplied[ret.probe_id][1] # supplied[ret.probe_id][2]
    /\ ret.value = SuppliedData(ret.probe_id, 1)

\* C27: the id list and the data list have the same length, and the
\* ProbesetData at every position is one that was passed in together with
\* the id at that position
C27_ListsAligned ==
    /\ Len(probeset_ids) = Len(probeset_data)
    /\ \A i \in 1..Len(probeset_ids) :
          /\ probeset_data[i].id = probeset_ids[i]
          /\ \E n \in 1..Len(supplied[probeset_ids[i]]) :
                 probeset_data[i] = SuppliedData(probeset_ids[i], n)

\* C27 case: three different ids are stored and the last call inserted
\* its id in front of the others
C27_Witness ==
    /\ ret.op = "add"
    /\ ret.i = 0
    /\ Len(probeset_ids) = 3
    /\ KeysDistinct

\* ------------------------------------------------------------------------
\* Properties of the TabFile load (checked under SpecTable)
\* ------------------------------------------------------------------------

\* The physical line number (1-based) of the line that skip_first_line
\* discards and of the line that is consumed as the header; 0 when none is
SkippedLineNo == IF arg_skip_first_line THEN 1 ELSE 0
HeaderLineNo ==
    IF arg_first_line_is_header THEN (IF arg_skip_first_line THEN 2 ELSE 1) ELSE 0
IsComment(line) == startswith(lstrip(line), "#")
\* Line n of fp is neither discarded, nor the header line, nor a comment
IsDataLineNo(n) ==
    /\ n # SkippedLineNo
    /\ n # HeaderLineNo
    /\ ~IsComment(fp[n])
NumFields(line) == Len(split(strip(line), TAB))
\* The list that column_names gives the header before the load
GivenHeader == IF column_names = None THEN <<>> ELSE column_names.some
LineNumbers(lines) == [j \in 1..Len(lines) |-> lines[j].lineno]
\* The increasing sequence of the numbers in lo..hi that satisfy Keep
RECURSIVE NumbersOf(_, _, _)
NumbersOf(Keep(_), lo, hi) ==
    IF lo > hi THEN <<>>
    ELSE (IF Keep(lo) THEN <<Some(lo)>> ELSE <<>>) \o NumbersOf(Keep, lo + 1, hi)

\* C7 (as claimed): once a header of length K > 0 is set, a data line with
\* fewer than K tab-separated fields makes the load fail with IndexError at
\* that line's 1-based number, and the line is not stored (padded or not).
C7_ShortLineAborts ==
    \A n \in 1..line_no :
        (pc # "init" /\ IsDataLineNo(n) /\ Len(header) > 0
                     /\ NumFields(fp[n]) < Len(header))
            => /\ pc = "failed"
               /\ error = "IndexError"
               /\ line_no = n
               /\ \A j \in 1..Len(data) : data[j].lineno # Some(n)

\* What C8 says of the records, with neither skip_first_line nor
\* first_line_is_header: no failure; the records are those of the
\* non-comment lines read so far, in file order, each with the 1-based
\* physical number of its line and the fields of its line.
C8_Records ==
    /\ error = NoException
    /\ LineNumbers(data) = NumbersOf(LAMBDA n : ~IsComment(fp[n]), 1, line_no)
    /\ Len(data) = Cardinality({n \in 1..line_no : ~IsComment(fp[n])})
    /\ \A j \in 1..Len(data) :
          LET fields == split(strip(fp[data[j].lineno.some]), TAB)
          IN  /\ Len(data[j].data) >= Len(fields)
              /\ SubSeq(data[j].data, 1, Len(fields)) = fields

\* C8 (as claimed): with neither skip_first_line nor first_line_is_header,
\* comment lines are neither stored nor used as header, every other line is
\* stored as one record in file order with its 1-based physical line
\* number, and when the load is done the header is empty.
C8_CommentsSkippedHeaderEmpty ==
    (~arg_skip_first_line /\ ~arg_first_line_is_header /\ pc # "init")
        => C8_Records /\ (pc = "done" => header = <<>>)

\* C8 (amended): as above, and the header stays what the constructor set
\* from column_names (empty when no column_names were given).
C8_CommentsSkippedHeaderKept ==
    (~arg_skip_first_line /\ ~arg_first_line_is_header /\ pc # "init")
        => C8_Records /\ header = GivenHeader

\* C8 witness: a finished load of three lines with a comment line (after
\* leading whitespace) between two stored lines.
C8_Witness ==
    /\ ~arg_skip_first_line /\ ~arg_first_line_is_header
    /\ pc = "done"
    /\ Len(fp) = 3
    /\ fp[2] = <<" ", "#", "a">>
    /\ LineNumbers(data) = <<Some(1), Some(3)>>

\* C9 (as claimed): with first_line_is_header set and skip_first_line
\* unset, once the first line is read the header is the tab-split names of
\* the first physical line, also when column_names were given (the load
\* proceeds without failure), and the first line is not stored as a record.
C9_HeaderFromFirstLine ==
    (arg_first_line_is_header /\ ~arg_skip_first_line /\ line_no >= 1)
        => /\ error = NoException
           /\ pc # "failed"
           /\ header = split(strip_chars(strip(fp[1]), {"#"}), TAB)
           /\ \A j \in 1..Len(data) : data[j].lineno # Some(1)

\* The table state that starts __load for the given flags
LoadStart(skip, first_is_header) ==
    [header |-> GivenHeader, ncols |-> Len(GivenHeader), data |-> <<>>,
     line_no |-> 0, skip_first_line |-> skip,
     first_line_is_header |-> first_is_header,
     pc |-> "load", error |-> NoException]

\* __load folded over the lines, stopping at the first failure
RECURSIVE LoadAll(_, _)
LoadAll(st, lines) ==
    IF lines = <<>> \/ st.pc = "failed" THEN st
    ELSE LoadAll(load_line(st, Head(lines)), Tail(lines))

\* The records with every line number raised by one
ShiftLines(lines) ==
    [j \in 1..Len(lines) |->
        [lines[j] EXCEPT !.lineno = Some(lines[j].lineno.some + 1)]]

\* C10: with skip_first_line set, exactly the first physical line is
\* discarded whatever it holds: after n >= 1 lines the table (header,
\* column count, records, failure) is the one a load without the flag
\* builds from lines 2..n, with the line numbers counted from line 2.
C10_SkipsOnlyFirstLine ==
    (arg_skip_first_line /\ line_no >= 1)
        => LET other == LoadAll(LoadStart(FALSE, arg_first_line_is_header),
                                SubSeq(fp, 2, line_no))
           IN  /\ ~skip_first_line
               /\ \A j \in 1..Len(data) : data[j].lineno # Some(1)
               /\ header = other.header
               /\ ncols = other.ncols
               /\ data = ShiftLines(other.data)
               /\ error = other.error
               /\ first_line_is_header = other.first_line_is_header
               /\ line_no = other.line_no + 1

\* C10 witness: a finished load with skip_first_line of three data lines:
\* the first is gone, the second and third are stored.
C10_Witness ==
    /\ arg_skip_first_line /\ ~arg_first_line_is_header
    /\ pc = "done"
    /\ Len(fp) = 3
    /\ ~IsComment(fp[1])
    /\ LineNumbers(data) = <<Some(2), Some(3)>>

\* The number of '#' at the start and at the end of s
RECURSIVE LeadingHashes(_)
LeadingHashes(s) ==
    IF s # <<>> /\ s[1] = "#" THEN 1 + LeadingHashes(Tail(s)) ELSE 0
RECURSIVE TrailingHashes(_)
TrailingHashes(s) ==
    IF s # <<>> /\ s[Len(s)] = "#"
    THEN 1 + TrailingHashes(SubSeq(s, 1, Len(s) - 1))
    ELSE 0
\* s without its first character when that is '#'
WithoutOneHash(s) == IF s # <<>> /\ s[1] = "#" THEN SubSeq(s, 2, Len(s)) ELSE s
\* s without any '#' at its start and at its end
WithoutEndHashes(s) ==
    IF LeadingHashes(s) = Len(s) THEN <<>>
    ELSE SubSeq(s, LeadingHashes(s) + 1, Len(s) - TrailingHashes(s))
\* The header line has been consumed and the header set from it
HeaderConsumed ==
    /\ HeaderLineNo > 0
    /\ line_no >= HeaderLineNo
    /\ pc \in {"load", "done"}

\* C11 (as claimed): when a line is consumed as the header, only a single
\* leading '#' is removed before the split on tabs: further '#' at the
\* start of the first name and '#' at the end of the last name stay.
C11_SingleHashStripped ==
    HeaderConsumed
        => header = split(WithoutOneHash(strip(fp[HeaderLineNo])), TAB)

\* C11 (amended): when a line is consumed as the header, every '#' at the
\* start and every '#' at the end of the whitespace-stripped line is
\* removed before the split on tabs; '#' inside the line stay.
C11_EndHashesStripped ==
    HeaderConsumed
        => header = split(WithoutEndHashes(strip(fp[HeaderLineNo])), TAB)

\* C11 witness: the header was taken from the line ##a<TAB>b# and its
\* names are a and b.
C11_Witness ==
    /\ HeaderConsumed
    /\ fp[HeaderLineNo] = <<"#", "#", "a", TAB, "b", "#">>
    /\ header = << <<"a">>, <<"b">> >>

\* setHeader has been called: by the constructor for column_names, or by
\* __load for the header line
HeaderSet ==
    /\ pc \in {"load", "done", "failed"}
    /\ column_names # None \/ (HeaderLineNo > 0 /\ line_no >= HeaderLineNo)

C28_SkipThenHeader ==
    (arg_skip_first_line /\ arg_first_line_is_header /\ line_no >= 2)
        => /\ pc # "failed"
           /\ header = split(WithoutEndHashes(strip(fp[2])), TAB)
           /\ LineNumbers(data) = NumbersOf(IsDataLineNo, 3, line_no)

\* ------------------------------------------------------------------------
\* Properties of TabDataLine (checked under SpecRecord)
\* ------------------------------------------------------------------------

\* The values a tab-joined line is made of: the text between the tabs
RECURSIVE GivenValues(_)
GivenValues(l) ==
    IF \E i \in 1..Len(l) : l[i] = TAB
    THEN LET i == CHOOSE i \in 1..Len(l) : l[i] = TAB /\ \A j \in 1..(i - 1) : l[j] # TAB
         IN  <<SubSeq(l, 1, i - 1)>> \o GivenValues(SubSeq(l, i + 1, Len(l)))
    ELSE <<l>>

\* The call recorded was made on the data line as the constructor built it
OnNewLine ==
    call.before = Built(TabDataLine(tdl_args.line, tdl_args.column_names,
                                    tdl_args.lineno))

\* C12: a data line built, with no column names, from n >= 1 values joined
\* with tabs has length n and its string form is the line it was built
\* from; a data line built from no line has length 0 and the string form ''
C12_RoundTrip ==
    (OnNewLine /\ tdl_args.column_names = None) =>
        /\ (call.name = "len" /\ tdl_args.line # None) =>
               call.ret = PyInt(Len(GivenValues(tdl_args.line.some)))
        /\ (call.name = "repr" /\ tdl_args.line # None) =>
               call.ret = PyStr(tdl_args.line.some)
        /\ (call.name = "len" /\ tdl_args.line = None) => call.ret = PyInt(0)
        /\ (call.name = "repr" /\ tdl_args.line = None) => call.ret = PyStr(<<>>)

\* The values and the number of column names a data line was built with
ValuesGiven == IF tdl_args.line = None THEN <<>> ELSE GivenValues(tdl_args.line.some)
NamesGiven == IF tdl_args.column_names = None THEN <<>> ELSE tdl_args.column_names.some

\* C13: a data line built with k column names and n < k values has length
\* k, the n values first and k-n empty strings after them, and the string
\* form of k-1 tabs when all values are empty; built with n >= k values it
\* keeps all n values
C13_Padding ==
    LET k == Len(NamesGiven)
        n == Len(ValuesGiven)
    IN  (call.name = "TabDataLine" /\ call.raised = NoException /\ k > 0) =>
           /\ len(tdl) = (IF n < k THEN k ELSE n)
           /\ \A i \in 1..len(tdl) :
                  tdl.data[i] = (IF i <= n THEN ValuesGiven[i] ELSE <<>>)
           /\ (\A i \in 1..n : ValuesGiven[i] = <<>>) =>
                  repr(tdl) = [i \in 1..(len(tdl) - 1) |-> TAB]
\* C14: after line[key] = v has succeeded, line[key] returns v, and when
\* key is a column name, line[i] returns v for the column i of that name
C14_SetThenGet ==
    [][(/\ call.name = "setitem"
        /\ call.raised = NoException
        /\ call'.name = "getitem"
        /\ \/ call'.key = call.key
           \/ /\ index_of(tdl.names, call.key) >= 0
              /\ call'.key = PyInt(index_of(tdl.names, call.key)))
       => (call'.raised = NoException /\ call'.ret = call.value)]_vars

\* C14 case: a value set through a column name has been read back through
\* the name and through the position of the column
C14_Witness ==
    /\ call.name = "getitem"
    /\ call.ret = Some(<<"v">>)
    /\ call.before.names = << <<"x">>, <<"y">> >>
    /\ call.key = PyInt(0)
    /\ tdl_args.line = Some(<<"a", TAB, "b">>)
\* The key of the call recorded is a column name of the data line
KeyIsName ==
    IsStr(call.key) /\ \E i \in 1..Len(call.before.names) :
                          call.before.names[i] = call.key.str

\* The key of the call recorded is an integer, given as an int or as a
\* string of digits, and the integer it is
KeyIsInteger ==
    \/ IsInt(call.key)
    \/ IsStr(call.key) /\ call.key.str # <<>>
          /\ \A i \in 1..Len(call.key.str) : call.key.str[i] \in Digits
KeyInteger == IF IsInt(call.key) THEN call.key.int ELSE DecimalValue(call.key.str)

\* The call recorded read, or wrote, the item at position p (from zero) of
\* the data line and nothing else
ActsOn(p) ==
    /\ call.raised = NoException
    /\ call.name = "getitem" => call.ret = Some(call.before.data[p + 1])
    /\ call.name = "setitem" =>
           tdl = [call.before EXCEPT !.data = [@ EXCEPT ![p + 1] = call.value.some]]

\* C15: line[key] and line[key] = value succeed exactly when key is a
\* column name or an integer in 0..len(line)-1, a name being looked up
\* first; every other key raises KeyError, and a set that fails leaves the
\* data line as it was
C15_KeyResolution ==
    (call.name \in {"getitem", "setitem"}) =>
        /\ call.raised = NoException <=>
               \/ KeyIsName
               \/ KeyIsInteger /\ 0 <= KeyInteger /\ KeyInteger < len(call.before)
        /\ call.raised \in {NoException, "KeyError"}
        /\ KeyIsName =>
               ActsOn(index_of(call.before.names, call.key))
        /\ (call.name = "setitem" /\ call.raised # NoException) => tdl = call.before

\* The first column (from zero) whose name is a string of digits that
\* denotes the integer j, or -1
LiteralColumn(names, j) ==
    LET lit(n) == n # <<>> /\ (\A c \in 1..Len(n) : n[c] \in Digits)
                    /\ DecimalValue(n) = j
    IN  IF \E i \in 1..Len(names) : lit(names[i])
        THEN (CHOOSE i \in 1..Len(names) :
                  lit(names[i]) /\ \A h \in 1..(i - 1) : ~lit(names[h])) - 1
        ELSE 0 - 1

\* The call recorded has a key j, and a column i # j is named with the
\* integer literal j
Ambiguous ==
    /\ call.name \in {"getitem", "setitem"}
    /\ KeyIsInteger
    /\ LiteralColumn(call.before.names, KeyInteger) >= 0
    /\ LiteralColumn(call.before.names, KeyInteger) # KeyInteger

\* C16 as stated: with a column i named with the integer literal j, every
\* get and set with key j acts on the item at position i
C16_NamePriority ==
    Ambiguous => ActsOn(LiteralColumn(call.before.names, KeyInteger))

\* C16: with a column i named with the integer literal j, get and set
\* with the string key j act on the item at position i, the named column,
\* and get and set with the int key j act on the item at position j
C16_StringKeyNamePriority ==
    Ambiguous =>
        /\ IsStr(call.key) => ActsOn(LiteralColumn(call.before.names, KeyInteger))
        /\ (IsInt(call.key) /\ KeyInteger < len(call.before)) => ActsOn(KeyInteger)

\* C16 case: the columns are named '1' and '0', and the key '1' has set
\* the item of the first column
C16_Witness ==
    /\ Ambiguous
    /\ call.name = "setitem"
    /\ call.key = PyStr(<<"1">>)
    /\ call.before.data = << <<"a">>, <<"b">> >>
    /\ tdl.data = << <<"v">>, <<"b">> >>
\* Every key of the subset call recorded can be read with line[key]
KeysResolve ==
    \A j \in 1..Len(call.keys) :
        getitem(call.before, call.keys[j]).raised = NoException

\* C17: subset(k1..km) of keys that all resolve returns a data line of
\* length m whose item j is line[kj], repeated keys included
C17_SubsetFields ==
    (call.name = "subset" /\ KeysResolve) =>
        /\ call.raised = NoException
        /\ len(call.ret) = Len(call.keys)
        /\ \A j \in 1..Len(call.keys) :
               Some(call.ret.data[j]) = getitem(call.before, call.keys[j]).value

\* C18: subset raises KeyError, and nothing else, when one of its keys
\* does not resolve, and accepts every key that line[key] accepts
C18_SubsetErrors ==
    (call.name = "subset") =>
        /\ call.raised \in {NoException, "KeyError"}
        /\ ~KeysResolve => call.raised = "KeyError"
        /\ KeysResolve => call.raised = NoException

\* The integer a lineno argument is taken as: an int is itself, a float
\* loses its fraction, a string of digits is the number it spells; -1
\* stands for an argument that is none of these
LinenoNumber(v) ==
    IF IsInt(v) THEN v.int
    ELSE IF IsFloat(v) /\ v.float >= 0 THEN v.float \div 10
    ELSE IF IsStr(v) /\ v.str # <<>> /\ (\A i \in 1..Len(v.str) : v.str[i] \in Digits)
    THEN DecimalValue(v.str)
    ELSE 0 - 1

\* The outcome of TabDataLine(...) and of lineno() on the line it built
Constructed == call.name = "TabDataLine" /\ call.raised = NoException
Rejected == call.name = "TabDataLine" /\ call.raised = "ValueError" /\ tdl = None
LinenoIs(n) == call.name = "lineno" => call.ret = n

\* C19 as stated: a lineno that is negative or not an integer is rejected
\* with ValueError; a non-negative integer n is accepted and lineno()
\* returns n; with no lineno, lineno() returns None
C19_LinenoIntegerOnly ==
    (call.name \in {"TabDataLine", "lineno"}) =>
        IF tdl_args.lineno = None THEN call.raised = NoException /\ LinenoIs(None)
        ELSE IF IsInt(tdl_args.lineno.some) /\ tdl_args.lineno.some.int >= 0
        THEN call.raised = NoException /\ LinenoIs(Some(tdl_args.lineno.some.int))
        ELSE Rejected

\* C19: a lineno that int() cannot convert, or converts to a negative
\* number, is rejected with ValueError; a lineno that int() converts to
\* n >= 0 (an int, a float, a string of digits) is accepted and lineno()
\* returns n; with no lineno, lineno() returns None
C19_LinenoConverted ==
    (call.name \in {"TabDataLine", "lineno"}) =>
        IF tdl_args.lineno = None THEN call.raised = NoException /\ LinenoIs(None)
        ELSE IF LinenoNumber(tdl_args.lineno.some) >= 0
        THEN call.raised = NoException
             /\ LinenoIs(Some(LinenoNumber(tdl_args.lineno.some)))
        ELSE Rejected

\* C19 case: lineno() has returned the number of a line built with the
\* lineno '3'
C19_Witness ==
    /\ call.name = "lineno"
    /\ tdl_args.lineno = Some(PyStr(<<"3">>))
    /\ call.ret = Some(3)
\* C29: a data line built with column names has, after any calls, at
\* least as many items as names, so line[name] and line[name] = v succeed
\* for every one of its names
C29_NamesInRange ==
    /\ tdl # None =>
           /\ len(tdl) >= Len(tdl.names)
           /\ \A j \in 1..Len(tdl.names) :
                  /\ getitem(tdl, PyStr(tdl.names[j])).raised = NoException
                  /\ \A v \in Values :
                         setitem(tdl, PyStr(tdl.names[j]), v).raised = NoException
    /\ (call.name \in {"getitem", "setitem"} /\ KeyIsName) =>
           call.raised = NoException

\* C29 case: a line with fewer values than names was padded, appended to
\* and set, and then read through a name
C29_Witness ==
    /\ call.name = "getitem"
    /\ call.key = PyStr(<<"x">>)
    /\ call.raised = NoException
    /\ tdl_args.line = Some(<<"a">>)
    /\ tdl.names = << <<"x">>, <<"y">> >>
    /\ tdl.data = << <<"v">>, <<>>, <<"v">> >>

\* ------------------------------------------------------------------------
\* Properties of the data lines of a loaded TabFile (checked under SpecEdit)
\* ------------------------------------------------------------------------

\* The number of data lines that stay before the line insert(i) inserts,
\* and the position (from 1) of the line del [i] deletes
InsertedBefore(i) ==
    IF i >= Len(data) THEN Len(data)
    ELSE IF i >= 0 THEN i
    ELSE IF i + Len(data) >= 0 THEN i + Len(data) ELSE 0
Deleted(i) == IF i >= 0 THEN i + 1 ELSE i + Len(data) + 1

\* C20: lineno() of a data line is not changed by a get, set, append,
\* subset or str on any data line of the table, nor by an insert or a
\* delete of another data line: the line numbers of the table stay as they
\* are, but for the None of an inserted line and the number of a deleted
\* line; and the data line subset returns has the lineno None
C20_LinenoImmutable ==
    [][/\ call'.name \in {"getitem", "setitem", "append", "subset", "repr"} =>
              LineNumbers(data') = LineNumbers(data)
       /\ call'.name = "insert" =>
              LineNumbers(data') =
                  ListInsert(LineNumbers(data), InsertedBefore(call'.key.int), None)
       /\ (call'.name = "delitem" /\ call'.raised = NoException) =>
              LineNumbers(data') =
                  Remove(LineNumbers(data), Deleted(call'.key.int))
       /\ (call'.name = "delitem" /\ call'.raised # NoException) =>
              LineNumbers(data') = LineNumbers(data)
       /\ (call'.name = "subset" /\ call'.raised = NoException) =>
              lineno_of(call'.ret) = None]_vars

\* C20 case: the first of two loaded data lines has been deleted, and the
\* second, which was set and appended to, still has the number of the file
\* line it was read from
C20_Witness ==
    /\ pc = "done"
    /\ call.name = "delitem"
    /\ call.raised = NoException
    /\ Len(data) = 1
    /\ data[1].lineno = Some(3)
    /\ data[1].data = << <<"v">>, <<"b">>, <<"v">> >>
\* C21: on a loaded table, after any inserts and deletes,
\* indexByLineNumber(n) returns an index whose data line has lineno() n
\* when the table holds such a line, and raises IndexError when it does not
C21_IndexByLineNumber ==
    (call.name = "indexByLineNumber") =>
        IF \E p \in 1..Len(data) : data[p].lineno = Some(call.key.int)
        THEN /\ call.raised = NoException
             /\ 0 <= call.ret.int /\ call.ret.int < Len(data)
             /\ data[call.ret.int + 1].lineno = Some(call.key.int)
        ELSE call.raised = "IndexError"

\* C21 case: the data line of file line 3 was looked for after a line had
\* been inserted in front of it and the data line of file line 1 deleted
C21_Witness ==
    /\ call.name = "indexByLineNumber"
    /\ call.key = PyInt(3)
    /\ call.ret = PyInt(1)
    /\ LineNumbers(data) = <<None, Some(3)>>

\* The data lines of the table for which line[key] returns value, in order
Matches(key, value) ==
    SelectSeq(data, LAMBDA l : getitem(l, key) =
                                  [raised |-> NoException, value |-> Some(value)])
\* line[key] returns for every data line of the table
KeyOnEveryLine(key) ==
    \A p \in 1..Len(data) : getitem(data[p], key).raised = NoException

\* C22 as stated: lookup(key, value) returns the data lines whose
\* line[key] is value, in order, raises nothing also when there is none,
\* and leaves the table as it is
C22_LookupMatches ==
    /\ [](call.name = "lookup" =>
             /\ call.raised = NoException
             /\ call.ret = Some(Matches(call.key, call.value.some)))
    /\ [][call'.name = "lookup" => (data' = data /\ header' = header)]_vars

\* C22: when line[key] returns for every data line, lookup(key, value)
\* returns the data lines whose line[key] is value, in order, and an empty
\* list when there is none; when line[key] raises for a data line, lookup
\* raises that KeyError; the table stays as it is in both cases
C22_LookupMatchesOrKeyError ==
    /\ [](call.name = "lookup" =>
             IF KeyOnEveryLine(call.key)
             THEN /\ call.raised = NoException
                  /\ call.ret = Some(Matches(call.key, call.value.some))
             ELSE call.raised = "KeyError")
    /\ [][call'.name = "lookup" => (data' = data /\ header' = header)]_vars

\* C22 case: of two data lines the second matches; the first, which was
\* set to another value, does not
C22_Witness ==
    /\ call.name = "lookup"
    /\ call.key = PyStr(<<"x">>)
    /\ call.value = Some(<<"a">>)
    /\ Len(data) = 2
    /\ data[1].data = << <<"v">>, <<"b">> >>
    /\ call.ret = Some(<<data[2]>>)

\* The data line TabFile.insert creates for the header hdr
NewLine(hdr) ==
    [data |-> [j \in 1..Len(hdr) |-> <<>>], names |-> hdr, lineno |-> None]

AtLoopStart ==
    first_line_check(LoadAll(LoadStart(FALSE, FALSE), fp).data).data
\* The data lines of lines whose string form is more than whitespace
NonBlank(lines) == SelectSeq(lines, LAMBDA l : strip(repr(l)) # <<>>)

\* C30: the blank-line loop of BedMaker.__init__ ends, no step of it
\* removes a data line that is not blank, and when it has ended the table
\* holds the non-blank data lines it started from, in their order, and no
\* blank one
C30_BlankLinesRemoved ==
    /\ [](pc \in {"remove", "ready"} => NonBlank(data) = NonBlank(AtLoopStart))
    /\ [](pc = "ready" => data = NonBlank(AtLoopStart))
    /\ (pc = "remove") ~> (pc = "ready")

\* C30 case: the loop has ended on a file with two blank lines, one after
\* the other, between two data lines
C30_Witness ==
    /\ pc = "ready"
    /\ Len(fp) = 3
    /\ Len(AtLoopStart) = 3
    /\ is_blank(AtLoopStart[2]) /\ is_blank(AtLoopStart[3])
    /\ Len(data) = 1

====
